---- MODULE Spec2Model ----
(***************************************************************************)
(* A model of src/monitor.py (class ArtMonitorV2): the extraction,         *)
(* validation, URL repair, deduplication, reporting and run() driver of    *)
(* the art & design auction monitor.                                       *)
(*                                                                         *)
(* Python strings are TLA+ strings; the str methods the code uses          *)
(* (startswith, in, lower, replace, rstrip) are operators computed         *)
(* character by character.  Python lists are sequences, dicts are          *)
(* functions or records, None is the value None.                           *)
(***************************************************************************)
EXTENDS Integers, Sequences, FiniteSets, TLC

VARIABLES
    \* ---- fix_url(url, base_url) ----
    fu_url, fu_base_url, fu_ret,
    \* ---- validate_result(item_title, search_term); vr_ret is <<>> before the
    \*      call and <<returned value>> after it ----
    vr_title, vr_term, vr_ret,
    \* ---- extract_items_from_html(soup, site_name, base_url); ex_examined is
    \*      <<the containers the loop of line 184 iterates over>>, ex_ret is
    \*      <<returned list>>, both <<>> before the call ----
    ex_soup, ex_site_name, ex_base_url, ex_examined, ex_ret,
    \* ---- create_email_html(items) on the day ce_weekday; ce_ret is <<>> before
    \*      the call and <<[raised, value]>> after it ----
    ce_items, ce_weekday, ce_ret,
    \* ---- filter_new_items(dd_input) called repeatedly: dd_rets lists the
    \*      returned lists, dd_store0 is emailed_items before the first call ----
    dd_input, dd_rets, dd_store0,
    \* ---- the world of a monitor process ----
    config,         \* search_config.json
    web,            \* site name -> the parsed page its search URL serves
    delivery,       \* "ok", "no_credentials" or "smtp_error"
    weekday,        \* datetime.now().weekday(), 0 = Monday .. 6 = Sunday
    ticks,          \* midnights passed
    disk_emailed,   \* emailed_items.json (a missing file loads as {})
    disk_active,    \* active_items.json
    \* ---- the process: `python monitor.py` ----
    pc,             \* "idle" (no process), "check", "filter", "save_active",
                    \* "report", "send"
    run_no,         \* processes started so far
    emailed_items, active_items,    \* self.emailed_items, self.active_items
    is_sunday,      \* run()'s local of line 669
    idx,            \* position of check_all_sites in its (term, site) loops
    all_results, new_items, html,
    loaded,         \* the keys load_emailed_items read (line 46)
    calls,          \* log of the search_site calls and their outcomes
    last_run        \* what the last process that exited did

varsMail == <<ce_items, ce_weekday, ce_ret>>
varsDed == <<dd_input, dd_rets, dd_store0>>
varsWorld == <<config, web, delivery, weekday, ticks, disk_emailed, disk_active>>
varsProc == <<pc, run_no, emailed_items, active_items, is_sunday, idx, all_results,
              new_items, html, loaded, calls, last_run>>
varsRun == <<varsWorld, varsProc>>
varsPure == <<fu_url, fu_base_url, fu_ret, vr_title, vr_term, vr_ret,
              ex_soup, ex_site_name, ex_base_url, ex_examined, ex_ret,
              ce_items, ce_weekday, ce_ret, dd_input, dd_rets, dd_store0>>
varsExt == <<ex_soup, ex_site_name, ex_base_url, ex_examined, ex_ret>>
varsUrl == <<fu_url, fu_base_url, fu_ret>>
varsVal == <<vr_title, vr_term, vr_ret>>
vars == <<varsUrl, varsVal, varsExt, varsMail, varsDed, varsRun>>

\* Python's None, and the value of a result that has not been computed yet.
None == "<None>"
Pending == "<pending>"

\* last_run before any process has exited
NoRun ==
    [no |-> 0, loaded |-> {}, filtered |-> FALSE, found |-> <<>>, new |-> <<>>,
     sent |-> FALSE, how |-> "none", stored |-> {}]

(***************************************************************************)
(* Python str operations                                                   *)
(***************************************************************************)
\* seq[:n], of a list or a str
Take(seq, n) == SubSeq(seq, 1, IF Len(seq) < n THEN Len(seq) ELSE n)

\* s[i:i+1]
CharAt(s, i) == SubSeq(s, i, i)

\* s.startswith(p)
StartsWith(s, p) == Len(s) >= Len(p) /\ SubSeq(s, 1, Len(p)) = p

\* sub in s
Contains(s, sub) ==
    \E i \in 0..(Len(s) - Len(sub)) : SubSeq(s, i + 1, i + Len(sub)) = sub

\* c.lower() of one character of the alphabet the inputs are drawn from
UpperLetters == "ABCDEFGHIJKLMNOPQRSTUVWXYZ"
LowerLetters == "abcdefghijklmnopqrstuvwxyz"
LowerChar(c) ==
    IF \E i \in 1..Len(UpperLetters) : CharAt(UpperLetters, i) = c
    THEN CharAt(LowerLetters, CHOOSE i \in 1..Len(UpperLetters) : CharAt(UpperLetters, i) = c)
    ELSE c

\* s.lower()
RECURSIVE Lower(_)
Lower(s) == IF s = "" THEN "" ELSE LowerChar(CharAt(s, 1)) \o Lower(SubSeq(s, 2, Len(s)))

\* s.replace(old, new), old non-empty: every non-overlapping occurrence, left to right
RECURSIVE Replace(_, _, _)
Replace(s, old, new) ==
    IF Len(s) < Len(old) THEN s
    ELSE IF StartsWith(s, old)
         THEN new \o Replace(SubSeq(s, Len(old) + 1, Len(s)), old, new)
         ELSE CharAt(s, 1) \o Replace(SubSeq(s, 2, Len(s)), old, new)

\* s.rstrip(c) for a one-character c
RECURSIVE RStrip(_, _)
RStrip(s, c) ==
    IF s # "" /\ CharAt(s, Len(s)) = c THEN RStrip(SubSeq(s, 1, Len(s) - 1), c) ELSE s

(***************************************************************************)
(* fix_url                                                                 *)
(***************************************************************************)
\* line 112-113: the x-webdoc:// rewrite
StripWebdoc(url) ==
    IF StartsWith(url, "x-webdoc://") THEN Replace(url, "x-webdoc://", "https://") ELSE url

\* line 116-121: the format chain, applied to the url left by line 113
EnsureFormat(url, base_url) ==
    IF StartsWith(url, "//") THEN "https:" \o url
    ELSE IF StartsWith(url, "/") THEN RStrip(base_url, "/") \o url
    ELSE IF ~StartsWith(url, "http") THEN RStrip(base_url, "/") \o "/" \o url
    ELSE url

fix_url(url, base_url) ==
    IF url = "" \/ url = None THEN None
    ELSE EnsureFormat(StripWebdoc(url), base_url)

(***************************************************************************)
(* validate_result                                                         *)
(* A search term is a record: kind "str" (an artist name, in s) or kind    *)
(* "dict" (a furniture entry: has_terms says whether the 'terms' key is    *)
(* present, terms is its list).                                            *)
(***************************************************************************)
ArtistTerm(name) == [kind |-> "str", s |-> name, has_terms |-> FALSE, terms |-> <<>>]
FurnitureTerm(ts) == [kind |-> "dict", s |-> "", has_terms |-> TRUE, terms |-> ts]
FurnitureNoTerms == [kind |-> "dict", s |-> "", has_terms |-> FALSE, terms |-> <<>>]

\* line 80: search_term.get('terms', [])
GetTerms(search_term) == IF search_term.has_terms THEN search_term.terms ELSE <<>>

\* TermPresent without the stripped variants of line 87-88
TermPresentAsWritten(term_lower, title_lower) == Contains(title_lower, term_lower)

\* line 86-88: one term against the lower-cased title
TermPresent(term_lower, title_lower) ==
    \/ Contains(title_lower, term_lower)
    \/ Contains(title_lower, Replace(term_lower, " ", ""))
    \/ Contains(title_lower, Replace(term_lower, "-", ""))

\* line 83-90: the loop over the terms, returning False at the first absent one
RECURSIVE AllTermsPresent(_, _)
AllTermsPresent(terms, title_lower) ==
    IF terms = <<>> THEN TRUE
    ELSE IF ~TermPresent(Lower(Head(terms)), title_lower) THEN FALSE
    ELSE AllTermsPresent(Tail(terms), title_lower)

\* SingleTermResult accepting an empty list, as all() of no terms would
SingleTermVacuous(terms, title_lower) ==
    IF terms # <<>> THEN Contains(title_lower, Lower(terms[1])) ELSE TRUE

\* line 93: fewer than two terms
SingleTermResult(terms, title_lower) ==
    IF terms # <<>> THEN Contains(title_lower, Lower(terms[1])) ELSE FALSE

validate_result(item_title, search_term) ==
    LET title_lower == Lower(item_title) IN
    IF search_term.kind = "dict"
    THEN LET terms == GetTerms(search_term) IN
         IF Len(terms) >= 2
         THEN AllTermsPresent(terms, title_lower)
         ELSE SingleTermResult(terms, title_lower)
    ELSE Contains(title_lower, Lower(search_term.s))

(***************************************************************************)
(* extract_items_from_html                                                 *)
(* A parsed page (soup) is a record: sel maps a CSS selector to the        *)
(* elements soup.select returns for it, in document order; fallback is     *)
(* what the class-keyword find_all of line 181 returns.  A container       *)
(* element is a record: texts maps a title sub-selector to the stripped    *)
(* text of the first element it matches inside the container, hrefs maps   *)
(* a link sub-selector to the href of the first element it matches ("" for *)
(* an element without href); a selector outside the domain matches nothing.*)
(***************************************************************************)
NoElem == "<no element>"

\* line 184 (and line 182): containers[:30]
ContainerCap == 30
\* line 214: items[:20]
ItemCap == 20

\* line 130-161
SiteKeys == <<"ebay", "lauritz", "barnebys", "bruun", "dba">>
site_selectors ==
    [ebay |-> [container |-> <<"div.s-item__wrapper", "li.s-item">>,
               title |-> <<"h3.s-item__title", "span.s-item__title">>,
               link |-> <<"a.s-item__link">>],
     lauritz |-> [container |-> <<"div.lot-card", "article.lot-card", "div.ListingCard">>,
                  title |-> <<"h3", "h2", ".lot-title", "a">>,
                  link |-> <<"a">>],
     barnebys |-> [container |-> <<".item", ".product-card", ".lot-card", "article">>,
                   title |-> <<"h2", "h3", "h4", ".title">>,
                   link |-> <<"a">>],
     bruun |-> [container |-> <<".lot-item", ".auction-item", "article">>,
                title |-> <<"h3", ".lot-title", ".title">>,
                link |-> <<"a">>],
     dba |-> [container |-> <<".listing-item", "tr[data-href]", "article">>,
              title |-> <<".listing-heading", "a.listingLink">>,
              link |-> <<"a.listing-heading", "a.listingLink">>],
     default |-> [container |-> <<"article", "div.item", "div.lot", "li.result">>,
                  title |-> <<"h1", "h2", "h3", "a.title", ".title", ".item-title">>,
                  link |-> <<"a">>]]

\* line 164-168: the first key (in dict order) contained in the site's name
RECURSIVE FirstKeyIn(_, _)
FirstKeyIn(keys, name_lower) ==
    IF keys = <<>> THEN "default"
    ELSE IF Contains(name_lower, Head(keys)) THEN Head(keys)
    ELSE FirstKeyIn(Tail(keys), name_lower)

SiteKey(site_name) == FirstKeyIn(SiteKeys, Lower(site_name))

\* soup.select(selector)
Select(soup, selector) ==
    IF selector \in DOMAIN soup.sel THEN soup.sel[selector] ELSE <<>>

\* container.select_one(sel) / container.find(sel) (line 189-192, 200-203)
FindIn(f, selector) == IF selector \in DOMAIN f THEN f[selector] ELSE NoElem

\* the loop of line 174-177 without its break: the last selector decides
LastSelect(soup, selectors) ==
    IF selectors = <<>> THEN <<>> ELSE Select(soup, selectors[Len(selectors)])

\* line 173-177: the first container selector with a match
RECURSIVE FirstHit(_, _)
FirstHit(soup, selectors) ==
    IF selectors = <<>> THEN <<>>
    ELSE IF Select(soup, Head(selectors)) # <<>> THEN Select(soup, Head(selectors))
    ELSE FirstHit(soup, Tail(selectors))

\* line 173-182: the value of `containers` when the extraction loop starts
Containers(soup, selectors) ==
    IF FirstHit(soup, selectors) # <<>>
    THEN FirstHit(soup, selectors)
    ELSE Take(soup.fallback, ContainerCap)

\* line 188-196: the text of the first title sub-selector that matches an
\* element; None when no sub-selector matches
RECURSIVE ExtractTitle(_, _)
ExtractTitle(container, title_sels) ==
    IF title_sels = <<>> THEN None
    ELSE IF FindIn(container.texts, Head(title_sels)) # NoElem
         THEN FindIn(container.texts, Head(title_sels))
         ELSE ExtractTitle(container, Tail(title_sels))

\* line 199-208: the repaired href of the first link sub-selector that
\* matches an element with a non-empty href; None when there is none
RECURSIVE ExtractLink(_, _, _)
ExtractLink(container, link_sels, base_url) ==
    IF link_sels = <<>> THEN None
    ELSE LET href == FindIn(container.hrefs, Head(link_sels)) IN
         IF href # NoElem /\ href # ""
         THEN fix_url(href, base_url)
         ELSE ExtractLink(container, Tail(link_sels), base_url)

Truthy(v) == v # None /\ v # ""

\* line 184-212: the loop over the containers examined
RECURSIVE ExtractLoop(_, _, _)
ExtractLoop(containers, selectors, base_url) ==
    IF containers = <<>> THEN <<>>
    ELSE LET title == ExtractTitle(Head(containers), selectors.title)
             url == ExtractLink(Head(containers), selectors.link, base_url)
             rest == ExtractLoop(Tail(containers), selectors, base_url)
         IN IF Truthy(title) /\ Truthy(url)
            THEN <<[title |-> title, url |-> url]>> \o rest
            ELSE rest

\* line 184: the containers the loop examines
Examined(soup, site_name) ==
    Take(Containers(soup, site_selectors[SiteKey(site_name)].container), ContainerCap)

extract_items_from_html(soup, site_name, base_url) ==
    Take(ExtractLoop(Examined(soup, site_name),
                     site_selectors[SiteKey(site_name)], base_url), ItemCap)

(***************************************************************************)
(* get_item_hash, filter_new_items                                         *)
(* An item is a record of title, url, source, search_term, region.  A      *)
(* dict is a function; the md5 digest is taken to be collision-free, so    *)
(* the digest of a string is modelled as the tagged string itself.         *)
(***************************************************************************)
\* line 322: item['title'][:100]
TitleLimit == 100

Md5(str) == <<"md5", str>>

\* line 71-72
get_item_hash(item_data) ==
    Md5(item_data.title \o "_" \o item_data.url \o "_" \o item_data.search_term)

\* d[k] = v
Put(d, k, v) == [x \in (DOMAIN d) \cup {k} |-> IF x = k THEN v ELSE d[x]]
EmptyDict == <<>>

\* MarkEmailed with the insertion of line 320 forgotten
MarkEmailedNot(emailed, item, now) == emailed

\* line 320-324: self.emailed_items[item_hash] = {...}
MarkEmailed(emailed, item, now) ==
    Put(emailed, get_item_hash(item),
        [date |-> now, title |-> Take(item.title, TitleLimit), source |-> item.source])

\* MarkActive that writes only the hashes the store does not hold yet
MarkActiveIfAbsent(active, item, now) ==
    IF get_item_hash(item) \in DOMAIN active
    THEN active
    ELSE Put(active, get_item_hash(item),
             [title |-> item.title, url |-> item.url, source |-> item.source,
              search_term |-> item.search_term, region |-> item.region,
              last_seen |-> now])

\* line 329-336: self.active_items[item_hash] = {...}
MarkActive(active, item, now) ==
    Put(active, get_item_hash(item),
        [title |-> item.title, url |-> item.url, source |-> item.source,
         search_term |-> item.search_term, region |-> item.region, last_seen |-> now])

\* Collect putting the item in front of the list
CollectFront(fresh, item) == <<item>> \o fresh

\* line 319: new_items.append(item)
Collect(fresh, item) == Append(fresh, item)

\* line 316-336: the loop, from the stores (emailed, active) and the
\* new_items collected so far (fresh); the value is the three after the loop
RECURSIVE FilterLoop(_, _, _, _, _)
FilterLoop(items, fresh, emailed, active, now) ==
    IF items = <<>>
    THEN [new_items |-> fresh, emailed_items |-> emailed, active_items |-> active]
    ELSE LET item == Head(items) IN
         IF get_item_hash(item) \notin DOMAIN emailed
         THEN FilterLoop(Tail(items), Collect(fresh, item),
                         MarkEmailed(emailed, item, now), MarkActive(active, item, now), now)
         ELSE FilterLoop(Tail(items), fresh,
                         emailed, MarkActive(active, item, now), now)

\* line 311-339: the returned list and the two stores it leaves in self
filter_new_items(items, emailed, active, now) == FilterLoop(items, <<>>, emailed, active, now)

(***************************************************************************)
(* search_site                                                             *)
(* A site_config is a record of name, base_url, has_region, region.  The   *)
(* outcome of requests.get is one of FetchOutcomes; on "ok" the response   *)
(* body parses to the soup given.                                          *)
(***************************************************************************)
\* line 265: at most 10 validated items per search
ValidatedCap == 10

FetchOutcomes == {"ok", "timeout", "connection_error", "403", "404", "500"}

\* sep.join(strs)
RECURSIVE Join(_, _)
Join(strs, sep) ==
    IF strs = <<>> THEN ""
    ELSE IF Len(strs) = 1 THEN strs[1]
    ELSE strs[1] \o sep \o Join(Tail(strs), sep)

\* line 222-229
DisplayTerm(search_term) ==
    IF search_term.kind = "dict" THEN Join(search_term.terms, " + ") ELSE search_term.s
Query(search_term) ==
    IF search_term.kind = "dict" THEN Join(search_term.terms, " ") ELSE search_term.s

\* line 262: site_config.get('region', 'Unknown')
RegionOf(site_config) == IF site_config.has_region THEN site_config.region ELSE "Unknown"

\* line 256-266: validate, tag and collect, stopping after the 10th valid item
RECURSIVE ValidateLoop(_, _, _, _)
ValidateLoop(items, site_config, search_term, validated_count) ==
    IF items = <<>> \/ validated_count >= ValidatedCap THEN <<>>
    ELSE IF validate_result(Head(items).title, search_term)
         THEN <<[title |-> Head(items).title, url |-> Head(items).url,
                 source |-> site_config.name, search_term |-> DisplayTerm(search_term),
                 region |-> RegionOf(site_config)]>>
              \o ValidateLoop(Tail(items), site_config, search_term, validated_count + 1)
         ELSE ValidateLoop(Tail(items), site_config, search_term, validated_count)

\* line 240-247, 270-275: does this outcome end the search with what
\* `results` holds at the time of the request, an empty list?
FetchFails(outcome) == outcome # "ok"

\* SearchRaises without the except clause of line 270
SearchRaisesTimeout(outcome) == outcome = "timeout"

\* line 220, 270-275: does the outcome leave search_site as an exception?
\* The three except clauses catch every Exception.
SearchRaises(outcome) == FALSE

\* line 216-277
search_site(site_config, search_term, outcome, soup) ==
    IF FetchFails(outcome) THEN <<>>
    ELSE ValidateLoop(extract_items_from_html(soup, site_config.name, site_config.base_url),
                      site_config, search_term, 0)

(***************************************************************************)
(* create_email_html, send_email                                           *)
(***************************************************************************)
Sunday == 6

\* the names bound in create_email_html when line 556 runs: its parameters,
\* the locals assigned on lines 344-554, and the module's globals
NamesAtLine556 ==
    {"self", "items", "is_sunday", "grouped", "item", "term", "category",
     "weekly_items", "item_hash", "item_data", "html",
     "requests", "BeautifulSoup", "smtplib", "MIMEText", "MIMEMultipart", "json",
     "os", "datetime", "hashlib", "time", "quote_plus", "re", "ArtMonitorV2"}

SeqToSet(seq) == {seq[i] : i \in 1..Len(seq)}

\* line 377-612: the document, as the data rendered into it
Render(items, sunday, n_sites) ==
    [doctype |-> "html",
     n_items |-> Len(items),
     n_sources |-> Cardinality({items[i].source : i \in 1..Len(items)}),
     listed |-> SeqToSet(items),
     weekly_note |-> sunday,
     n_sites |-> n_sites]

\* line 341-612.  The value is [raised, value]: the exception raised (or
\* None) and the value returned, <<>> for None and <<document>> otherwise
create_email_html(items, day, n_sites) ==
    LET sunday == (day = Sunday) IN
    IF items = <<>> /\ ~sunday THEN [raised |-> None, value |-> <<>>]
    ELSE IF "sorted_groups" \notin NamesAtLine556
         THEN [raised |-> "NameError", value |-> <<>>]
         ELSE [raised |-> None, value |-> <<Render(items, sunday, n_sites)>>]

\* line 614-659: html_content, the credentials in the environment and the
\* SMTP exchange decide the returned boolean
send_email(html_content, has_credentials, smtp_ok) ==
    IF html_content = <<>> THEN FALSE
    ELSE IF ~has_credentials THEN FALSE
    ELSE smtp_ok

(***************************************************************************)
(* Inputs                                                                  *)
(***************************************************************************)
MaxTerms == 2
\* the largest number of elements one selector matches in a page
DocSize == 31

UrlPrefixes == {"", "/", "//", "x-webdoc://", "http://", "https://", "mailto:", "ftp://"}
UrlRests == {"", "listing/123", "cdn.example.com/x", "a@b.c"}
UrlInputs == {p \o r : p \in UrlPrefixes, r \in UrlRests} \cup {None}
BaseSchemes == {"https", "http"}
BaseHosts == {"example.com"}
BasePaths == {"", "/", "/search", "/search/"}
BaseInputs == {s \o "://" \o h \o p : s \in BaseSchemes, h \in BaseHosts, p \in BasePaths}

TitleInputs ==
    {"", "Hans Wegner PP550 Peacock Chair", "Hans Wegner PP101", "pp550",
     "WEGNER pp 550", "Wegner PP-550", "cowhorn chair by wegner", "Cow Horn", "Agnes Denes print"}
TermWords == {"Wegner", "PP550", "PP 550", "PP-550", "Cow Horn", "P P-5"}
TermLists == UNION {[1..n -> TermWords] : n \in 0..MaxTerms}
SearchTerms ==
    {FurnitureTerm(ts) : ts \in TermLists} \cup {FurnitureNoTerms}
        \cup {ArtistTerm(a) : a \in {"Agnes Denes", "Wegner"}}

\* Sample container elements.  Lot: a heading and a link.  EmptyHeading: an
\* empty <h3> before a non-empty <h2>.  NoHref: a link without href.
Lot(id) ==
    LET t == "Wegner PP550 chair " \o ToString(id)
        h == "/lot/" \o ToString(id)
    IN [id |-> id,
        texts |-> ("h3" :> t @@ "h3.s-item__title" :> t @@ ".listing-heading" :> t),
        hrefs |-> ("a" :> h @@ "a.s-item__link" :> h @@ "a.listingLink" :> h)]
EmptyHeading(id) ==
    [id |-> id,
     texts |-> ("h3" :> "" @@ "h2" :> "Cow Horn chair" @@ ".title" :> "Cow Horn chair"),
     hrefs |-> ("a" :> "//cdn.example.com/" \o ToString(id))]
NoHref(id) ==
    [id |-> id, texts |-> ("h3" :> "Agnes Denes print"), hrefs |-> ("a" :> "")]

\* what selector number k of a profile matches, in four variants
Matches(k, v) ==
    CASE v = 0 -> <<>>
      [] v = 1 -> <<Lot(100 * k + 1)>>
      [] v = 2 -> <<EmptyHeading(100 * k + 1), Lot(100 * k + 2), NoHref(100 * k + 3)>>
      [] v = 3 -> [i \in 1..DocSize |-> Lot(100 * k + i)]

IndexOf(seq, x) == CHOOSE i \in 1..Len(seq) : seq[i] = x
SeqRange(seq) == {seq[i] : i \in 1..Len(seq)}

ExtractSites == {"Lauritz.com", "Bruun Rasmussen", "eBay", "Artnet"}
SoupsFor(site_name) ==
    LET sels == site_selectors[SiteKey(site_name)].container IN
    {[sel |-> [c \in SeqRange(sels) |-> Matches(IndexOf(sels, c), v[IndexOf(sels, c)])],
      fallback |-> Matches(9, f)] : v \in [1..Len(sels) -> 0..3], f \in {0, 2, 3}}
EmptySoup == [sel |-> <<>>, fallback |-> <<>>]

(***************************************************************************)
(* Inputs of the driver: configurations, pages, stores                     *)
(***************************************************************************)
MaxItems == 3
MaxCalls == 2
MaxRuns == 2
MaxTicks == 1

Weekdays == 0..6

SiteLauritz ==
    [name |-> "Lauritz.com", base_url |-> "https://www.lauritz.com",
     has_region |-> TRUE, region |-> "Denmark"]
SiteArtnet ==
    [name |-> "Artnet", base_url |-> "https://www.artnet.com/",
     has_region |-> FALSE, region |-> ""]
Wegner550 == FurnitureTerm(<<"Wegner", "PP550">>)

\* search_config.json: artists, furniture, sites
Configs ==
    {[artists |-> <<"Agnes Denes">>, furniture |-> <<Wegner550>>,
      sites |-> <<SiteLauritz, SiteArtnet>>],
     [artists |-> <<"Agnes Denes", "Wegner">>, furniture |-> <<Wegner550>>,
      sites |-> <<SiteArtnet>>]}

ArtistLot(id) ==
    [id |-> id, texts |-> ("h3" :> "Agnes Denes print"),
     hrefs |-> ("a" :> "https://example.org/denes/" \o ToString(id))]

\* listing pages: nothing, one furniture lot, three lots and a broken one
PageEmpty == EmptySoup
PageOneLot == [sel |-> ("div.lot-card" :> <<Lot(1)>> @@ "article" :> <<Lot(1)>>), fallback |-> <<>>]
PageMixed ==
    [sel |-> ("article" :> <<ArtistLot(2), Lot(1), NoHref(3)>>
                @@ "div.ListingCard" :> <<Lot(1), ArtistLot(2), EmptyHeading(4)>>),
     fallback |-> <<Lot(7)>>]
Pages == {PageEmpty, PageOneLot, PageMixed}
SiteNames == {SiteLauritz.name, SiteArtnet.name}
Webs == [SiteNames -> Pages]

\* the driver's world: one site, an artist and a furniture entry
RunConfigs ==
    {[artists |-> <<"Agnes Denes">>, furniture |-> <<Wegner550>>, sites |-> <<SiteLauritz>>]}
RunWebs == [{SiteLauritz.name} -> Pages]
\* the days a process starts on: a Wednesday (as any day whose next day is
\* not a Sunday either), a Saturday and a Sunday
RunDays == {2, 5, 6}

\* items as search_site produces them
ItemSamples ==
    {[title |-> "Wegner PP550 chair", url |-> "https://www.lauritz.com/lot/1",
      source |-> "Lauritz.com", search_term |-> "Wegner + PP550", region |-> "Denmark"],
     [title |-> "Wegner PP550 chair", url |-> "https://www.lauritz.com/lot/1",
      source |-> "Artnet", search_term |-> "Wegner + PP550", region |-> "Unknown"],
     [title |-> "a_b", url |-> "c", source |-> "Artnet",
      search_term |-> "Agnes Denes", region |-> "Unknown"],
     [title |-> "a", url |-> "b_c", source |-> "Artnet",
      search_term |-> "Agnes Denes", region |-> "Unknown"],
     [title |-> "Agnes Denes print", url |-> "https://example.org/denes/2",
      source |-> "Artnet", search_term |-> "Agnes Denes", region |-> "Unknown"]}
ItemLists == UNION {[1..n -> ItemSamples] : n \in 0..MaxItems}

\* emailed_items.json as earlier executions of filter_new_items leave it
StoreOf(items) == filter_new_items(items, EmptyDict, EmptyDict, 0).emailed_items
ActiveOf(items) == filter_new_items(items, EmptyDict, EmptyDict, 0).active_items
StoreSamples == {StoreOf(<<>>)} \cup {StoreOf(<<i>>) : i \in ItemSamples}
\* active_items.json likewise
ActiveSamples == {ActiveOf(<<>>)} \cup {ActiveOf(<<i>>) : i \in ItemSamples}
DiskSamples ==
    {<<>>,
     <<[title |-> "Wegner PP550 chair 1", url |-> "https://www.lauritz.com/lot/1",
        source |-> "Lauritz.com", search_term |-> "Wegner + PP550", region |-> "Denmark"]>>}

(***************************************************************************)
(* Specifications of the pure functions: the inputs are drawn in Init, the *)
(* action applies the function.                                            *)
(***************************************************************************)
IdleUrl == fu_url = None /\ fu_base_url = None /\ fu_ret = Pending
IdleVal == vr_title = None /\ vr_term = FurnitureNoTerms /\ vr_ret = <<>>
IdleExt ==
    /\ ex_soup = EmptySoup /\ ex_site_name = None /\ ex_base_url = None
    /\ ex_examined = <<>> /\ ex_ret = <<>>
IdleMail == ce_items = <<>> /\ ce_weekday = 0 /\ ce_ret = <<>>
IdleDed == dd_input = <<>> /\ dd_rets = <<>> /\ dd_store0 = EmptyDict
IdleRun ==
    /\ config = [artists |-> <<>>, furniture |-> <<>>, sites |-> <<>>]
    /\ web = <<>> /\ delivery = "ok" /\ weekday = 0 /\ ticks = 0
    /\ disk_emailed = EmptyDict /\ disk_active = EmptyDict
    /\ pc = "idle" /\ run_no = 0
    /\ emailed_items = EmptyDict /\ active_items = EmptyDict
    /\ is_sunday = FALSE /\ idx = 1 /\ all_results = <<>> /\ new_items = <<>>
    /\ html = <<>> /\ loaded = {} /\ calls = <<>> /\ last_run = NoRun

InitUrl ==
    /\ fu_url \in UrlInputs
    /\ fu_base_url \in BaseInputs
    /\ fu_ret = Pending
    /\ IdleVal /\ IdleExt /\ IdleMail /\ IdleDed /\ IdleRun

CallFixUrl ==
    /\ fu_ret = Pending
    /\ fu_ret' = fix_url(fu_url, fu_base_url)
    /\ UNCHANGED <<fu_url, fu_base_url, varsVal, varsExt, varsMail, varsDed, varsRun>>

NextUrl == CallFixUrl
SpecUrl == InitUrl /\ [][NextUrl]_vars

InitVal ==
    /\ vr_title \in TitleInputs
    /\ vr_term \in SearchTerms
    /\ vr_ret = <<>>
    /\ IdleUrl /\ IdleExt /\ IdleMail /\ IdleDed /\ IdleRun

CallValidate ==
    /\ vr_ret = <<>>
    /\ vr_ret' = <<validate_result(vr_title, vr_term)>>
    /\ UNCHANGED <<vr_title, vr_term, varsUrl, varsExt, varsMail, varsDed, varsRun>>

NextVal == CallValidate
SpecVal == InitVal /\ [][NextVal]_vars

InitExt ==
    /\ ex_site_name \in ExtractSites
    /\ ex_soup \in SoupsFor(ex_site_name)
    /\ ex_base_url \in {"https://example.com"}
    /\ ex_examined = <<>>
    /\ ex_ret = <<>>
    /\ IdleUrl /\ IdleVal /\ IdleMail /\ IdleDed /\ IdleRun

CallExtract ==
    /\ ex_ret = <<>>
    /\ ex_examined' = <<Examined(ex_soup, ex_site_name)>>
    /\ ex_ret' = <<extract_items_from_html(ex_soup, ex_site_name, ex_base_url)>>
    /\ UNCHANGED <<ex_soup, ex_site_name, ex_base_url,
                   varsUrl, varsVal, varsMail, varsDed, varsRun>>

NextExt == CallExtract
SpecExt == InitExt /\ [][NextExt]_vars

InitMail ==
    /\ ce_items \in ItemLists
    /\ ce_weekday \in Weekdays
    /\ ce_ret = <<>>
    /\ IdleUrl /\ IdleVal /\ IdleExt /\ IdleDed /\ IdleRun

CallCreateEmail ==
    /\ ce_ret = <<>>
    /\ ce_ret' = <<create_email_html(ce_items, ce_weekday, 2)>>
    /\ UNCHANGED <<ce_items, ce_weekday, varsUrl, varsVal, varsExt, varsDed, varsRun>>

NextMail == CallCreateEmail
SpecMail == InitMail /\ [][NextMail]_vars

\* filter_new_items called MaxCalls times on one monitor object with the
\* same list
InitDed ==
    /\ dd_input \in ItemLists
    /\ dd_store0 \in StoreSamples
    /\ dd_rets = <<>>
    /\ IdleUrl /\ IdleVal /\ IdleExt /\ IdleMail
    /\ config = [artists |-> <<>>, furniture |-> <<>>, sites |-> <<>>]
    /\ web = <<>> /\ delivery = "ok" /\ weekday \in {0, 6} /\ ticks = 0
    /\ disk_emailed = dd_store0 /\ disk_active = EmptyDict
    /\ pc = "idle" /\ run_no = 0
    /\ emailed_items = dd_store0 /\ active_items \in ActiveSamples
    /\ is_sunday = FALSE /\ idx = 1 /\ all_results = <<>> /\ new_items = <<>>
    /\ html = <<>> /\ loaded = {} /\ calls = <<>> /\ last_run = NoRun

CallFilter ==
    /\ Len(dd_rets) < MaxCalls
    /\ LET r == filter_new_items(dd_input, emailed_items, active_items, weekday) IN
       /\ dd_rets' = Append(dd_rets, r.new_items)
       /\ emailed_items' = r.emailed_items
       /\ active_items' = r.active_items
    /\ UNCHANGED <<dd_input, dd_store0, varsUrl, varsVal, varsExt, varsMail,
                   config, web, delivery, weekday, ticks, disk_emailed, disk_active,
                   pc, run_no, is_sunday, idx, all_results, new_items, html, loaded,
                   calls, last_run>>

NextDed == CallFilter
SpecDed == InitDed /\ [][NextDed]_vars

(***************************************************************************)
(* The driver: `python monitor.py` run again and again by the scheduler.   *)
(* A process loads the two stores (__init__), runs run() and exits; what   *)
(* it leaves behind is the two files.  A process can be stopped by a       *)
(* signal at any point, and midnight can pass at any point.                *)
(***************************************************************************)
\* line 290-295, 299-304: the inner loop over the sites for one term
PairsFor(term, sites) == [j \in 1..Len(sites) |-> [term |-> term, site |-> sites[j]]]

RECURSIVE Product(_, _)
Product(terms, sites) ==
    IF terms = <<>> THEN <<>>
    ELSE PairsFor(Head(terms), sites) \o Product(Tail(terms), sites)

\* line 290-304: the (term, site) pairs in the order check_all_sites visits them
Pairs(cfg) ==
    Product([i \in 1..Len(cfg.artists) |-> ArtistTerm(cfg.artists[i])], cfg.sites)
        \o Product(cfg.furniture, cfg.sites)

\* the process exits: its memory is gone, the log keeps what it did
Exit(how, sent, disk_after) ==
    /\ pc' = "idle"
    /\ last_run' = [no |-> run_no,
                    loaded |-> loaded,
                    filtered |-> pc \in {"save_active", "report", "send"},
                    found |-> all_results,
                    new |-> new_items,
                    sent |-> sent,
                    how |-> how,
                    stored |-> DOMAIN disk_after]
    /\ emailed_items' = EmptyDict /\ active_items' = EmptyDict
    /\ is_sunday' = FALSE /\ idx' = 1 /\ all_results' = <<>> /\ new_items' = <<>>
    /\ html' = <<>> /\ loaded' = {}

\* line 706-707, 21-40, 661-677: the process starts, loads the stores and
\* enters check_all_sites
Start ==
    /\ pc = "idle" /\ run_no < MaxRuns
    /\ run_no' = run_no + 1
    /\ emailed_items' = disk_emailed
    /\ active_items' = disk_active
    /\ loaded' = DOMAIN disk_emailed
    /\ is_sunday' = (weekday = Sunday)
    /\ all_results' = <<>> /\ idx' = 1 /\ new_items' = <<>> /\ html' = <<>>
    /\ pc' = IF Pairs(config) = <<>> THEN "filter" ELSE "check"
    /\ UNCHANGED <<varsWorld, calls, last_run, varsPure>>

\* line 293-294, 302-303: one search_site call and the extend that follows
SearchCore(outcome) ==
    /\ pc = "check" /\ idx <= Len(Pairs(config))
    /\ LET pair == Pairs(config)[idx] IN
       IF SearchRaises(outcome)
       THEN Exit("raised", FALSE, disk_emailed) /\ UNCHANGED run_no
       ELSE /\ all_results' = all_results
                  \o search_site(pair.site, pair.term, outcome, web[pair.site.name])
            /\ idx' = idx + 1
            /\ pc' = IF idx = Len(Pairs(config)) THEN "filter" ELSE "check"
            /\ UNCHANGED <<run_no, emailed_items, active_items, is_sunday, new_items,
                           html, loaded, last_run>>
    /\ UNCHANGED <<varsWorld, varsPure>>

SearchStep ==
    /\ \E outcome \in FetchOutcomes : SearchCore(outcome)
    /\ UNCHANGED calls

\* the same step, keeping the log of the calls
LoggedSearchStep ==
    \E outcome \in FetchOutcomes :
        /\ SearchCore(outcome)
        /\ calls' = Append(calls, [term |-> Pairs(config)[idx].term,
                                   site |-> Pairs(config)[idx].site.name,
                                   outcome |-> outcome])

\* line 683
Filter ==
    /\ pc = "filter"
    /\ LET r == filter_new_items(all_results, emailed_items, active_items, weekday) IN
       /\ new_items' = r.new_items
       /\ emailed_items' = r.emailed_items
       /\ active_items' = r.active_items
    /\ pc' = "save_active"
    /\ UNCHANGED <<varsWorld, run_no, is_sunday, idx, all_results, html, loaded, calls, last_run, varsPure>>

\* SaveActive with save_emailed_items called next to save_active_items
SaveBoth ==
    /\ pc = "save_active"
    /\ disk_active' = active_items
    /\ disk_emailed' = emailed_items
    /\ pc' = "report"
    /\ UNCHANGED <<config, web, delivery, weekday, ticks,
                   run_no, emailed_items, active_items, is_sunday, idx, all_results,
                   new_items, html, loaded, calls, last_run, varsPure>>

\* line 686, 63-66
SaveActive ==
    /\ pc = "save_active"
    /\ disk_active' = active_items
    /\ pc' = "report"
    /\ UNCHANGED <<config, web, delivery, weekday, ticks, disk_emailed,
                   run_no, emailed_items, active_items, is_sunday, idx, all_results,
                   new_items, html, loaded, calls, last_run, varsPure>>

\* line 688-692, 700-704: the branch on new_items and is_sunday, and the
\* call of create_email_html
Report ==
    /\ pc = "report"
    /\ IF new_items # <<>> \/ is_sunday
       THEN LET r == create_email_html(new_items, weekday, Len(config.sites)) IN
            IF r.raised # None
            THEN Exit(r.raised, FALSE, disk_emailed)
            ELSE /\ html' = r.value
                 /\ pc' = "send"
                 /\ UNCHANGED <<emailed_items, active_items, is_sunday, idx, all_results,
                                new_items, loaded, last_run>>
       ELSE Exit("completed", FALSE, disk_emailed)
    /\ UNCHANGED <<varsWorld, run_no, calls, varsPure>>

\* line 693-704, 50-53: send_email and, when it returns True, save_emailed_items
SendEmail ==
    /\ pc = "send"
    /\ LET ok == send_email(html, delivery # "no_credentials", delivery = "ok")
           disk_after == IF ok THEN emailed_items ELSE disk_emailed
       IN /\ disk_emailed' = disk_after
          /\ Exit("completed", ok, disk_after)
    /\ UNCHANGED <<config, web, delivery, weekday, ticks, disk_active, run_no, calls, varsPure>>

\* the process is stopped from outside (a signal, a power cut)
Interrupt ==
    /\ pc # "idle"
    /\ Exit("interrupted", FALSE, disk_emailed)
    /\ UNCHANGED <<varsWorld, run_no, calls, varsPure>>

\* midnight passes
Tick ==
    /\ ticks < MaxTicks
    /\ ticks' = ticks + 1
    /\ weekday' = (weekday + 1) % 7
    /\ UNCHANGED <<config, web, delivery, disk_emailed, disk_active, varsProc, varsPure>>

InitWorld ==
    /\ config \in RunConfigs
    /\ web \in RunWebs
    /\ delivery \in {"ok", "no_credentials", "smtp_error"}
    /\ weekday \in RunDays
    /\ ticks = 0
    /\ \E d \in DiskSamples : disk_emailed = StoreOf(d) /\ disk_active = ActiveOf(d)

Init ==
    /\ InitWorld
    /\ pc = "idle" /\ run_no = 0
    /\ emailed_items = EmptyDict /\ active_items = EmptyDict
    /\ is_sunday = FALSE /\ idx = 1 /\ all_results = <<>> /\ new_items = <<>>
    /\ html = <<>> /\ loaded = {} /\ calls = <<>> /\ last_run = NoRun
    /\ IdleUrl /\ IdleVal /\ IdleExt /\ IdleMail /\ IdleDed

Next ==
    \/ Start \/ SearchStep \/ Filter \/ SaveActive \/ Report \/ SendEmail
    \/ Interrupt \/ Tick

Spec == Init /\ [][Next]_vars

\* check_all_sites alone, in a process that has just been constructed
InitSearch ==
    /\ config \in Configs
    /\ web \in Webs
    /\ delivery = "ok" /\ weekday = 0 /\ ticks = 0
    /\ disk_emailed = EmptyDict /\ disk_active = EmptyDict
    /\ pc = "check" /\ run_no = 1
    /\ emailed_items = EmptyDict /\ active_items = EmptyDict
    /\ is_sunday = FALSE /\ idx = 1 /\ all_results = <<>> /\ new_items = <<>>
    /\ html = <<>> /\ loaded = {} /\ calls = <<>> /\ last_run = NoRun
    /\ IdleUrl /\ IdleVal /\ IdleExt /\ IdleMail /\ IdleDed

NextSearch == LoggedSearchStep

SpecSearch == InitSearch /\ [][NextSearch]_vars

(***************************************************************************)
(* Properties of validate_result (SpecVal)                                 *)
(***************************************************************************)
\* s with every occurrence of the character c left out
RECURSIVE Without(_, _)
Without(s, c) ==
    IF s = "" THEN ""
    ELSE (IF CharAt(s, 1) = c THEN "" ELSE CharAt(s, 1)) \o Without(SubSeq(s, 2, Len(s)), c)

\* term occurs in title, case-insensitively, as written or with its spaces
\* or its hyphens stripped
Occurs(term, title) ==
    LET t == Lower(term)
        h == Lower(title)
    IN Contains(h, t) \/ Contains(h, Without(t, " ")) \/ Contains(h, Without(t, "-"))

ValDone == vr_ret # <<>>
ValDict == vr_term.kind = "dict"

\* C5 (as stated): for a dict term with any non-empty terms list,
\* validate_result is true iff every term occurs in the title, as written
\* or with its spaces or hyphens stripped, case-insensitively.
C5_AndOverAnyNonEmptyList ==
    (ValDone /\ ValDict /\ GetTerms(vr_term) # <<>>)
        => (vr_ret[1] <=> \A i \in 1..Len(GetTerms(vr_term)) : Occurs(GetTerms(vr_term)[i], vr_title))

\* C5 (amended): for a dict term with two or more terms, validate_result is
\* true iff every term occurs in the title as written or with its spaces or
\* hyphens stripped, case-insensitively; for a dict term with exactly one
\* term it is true iff that term occurs in the title as written,
\* case-insensitively (no stripped variants).
C5_AndOverTwoOrMore ==
    (ValDone /\ ValDict)
        => LET terms == GetTerms(vr_term) IN
           /\ Len(terms) >= 2 =>
                (vr_ret[1] <=> \A i \in 1..Len(terms) : Occurs(terms[i], vr_title))
           /\ Len(terms) = 1 =>
                (vr_ret[1] <=> Contains(Lower(vr_title), Lower(terms[1])))

\* a two-term list accepted although one term matches only in a stripped form
C5_Witness ==
    /\ ValDone /\ ValDict
    /\ Len(GetTerms(vr_term)) >= 2
    /\ vr_ret[1] = TRUE
    /\ \E i \in 1..Len(GetTerms(vr_term)) :
          ~Contains(Lower(vr_title), Lower(GetTerms(vr_term)[i]))

\* C6: a dict term whose terms list is empty or absent is rejected for
\* every title.
C6_EmptyTermsRejected ==
    (ValDone /\ ValDict /\ GetTerms(vr_term) = <<>>) => vr_ret = <<FALSE>>

\* an empty terms list and a non-empty title: rejected
C6_Witness ==
    /\ ValDone /\ ValDict
    /\ vr_term.has_terms /\ vr_term.terms = <<>>
    /\ vr_title # ""
    /\ vr_ret = <<FALSE>>

(***************************************************************************)
(* Properties of fix_url (SpecUrl)                                         *)
(***************************************************************************)
UrlDone == fu_ret # Pending

\* the part of s before its first "/"
RECURSIVE UpToSlash(_)
UpToSlash(s) ==
    IF s = "" \/ CharAt(s, 1) = "/" THEN "" ELSE CharAt(s, 1) \o UpToSlash(SubSeq(s, 2, Len(s)))

\* scheme://host of an absolute URL
Origin(u) ==
    LET at == {i \in 1..(Len(u) - 2) : SubSeq(u, i, i + 2) = "://"}
        k == CHOOSE i \in at : \A j \in at : i <= j
    IN SubSeq(u, 1, k + 2) \o UpToSlash(SubSeq(u, k + 3, Len(u)))

\* C7: for a url beginning with a single "/", fix_url returns the scheme
\* and host of the base URL followed by url, discarding the base's path.
C7_RootRelativeAgainstOrigin ==
    (UrlDone /\ fu_url # None /\ StartsWith(fu_url, "/") /\ ~StartsWith(fu_url, "//"))
        => fu_ret = Origin(fu_base_url) \o fu_url

SchemeChars == LowerLetters \o UpperLetters \o "0123456789+.-"
\* u begins with a scheme: letters, digits, "+", ".", "-" and then ":"
HasScheme(u) ==
    \E i \in 2..Len(u) :
        /\ CharAt(u, i) = ":"
        /\ \A j \in 1..(i - 1) : Contains(SchemeChars, CharAt(u, j))

\* C8: a url that carries a scheme is returned unchanged, whatever the
\* base; only a leading "x-webdoc://" is rewritten, to "https://".
C8_AbsoluteUntouched ==
    (UrlDone /\ fu_url # None /\ HasScheme(fu_url))
        => IF StartsWith(fu_url, "x-webdoc://")
           THEN fu_ret = "https://" \o SubSeq(fu_url, Len("x-webdoc://") + 1, Len(fu_url))
           ELSE fu_ret = fu_url

(***************************************************************************)
(* Properties of extract_items_from_html (SpecExt)                         *)
(***************************************************************************)
ExtDone == ex_ret # <<>>
ExtSelectors == site_selectors[SiteKey(ex_site_name)].container
\* the positions of the container selectors that match something
ExtHits == {i \in 1..Len(ExtSelectors) : Select(ex_soup, ExtSelectors[i]) # <<>>}
ExtFirst == CHOOSE i \in ExtHits : \A j \in ExtHits : i <= j

\* C10 (as stated): the containers examined are exactly the matches of the
\* first container selector with a match; the fallback's elements are
\* examined only when no container selector matches.
C10_ExactlyFirstHit ==
    ExtDone =>
        IF ExtHits # {}
        THEN ex_examined[1] = Select(ex_soup, ExtSelectors[ExtFirst])
        ELSE ex_examined[1] = Take(ex_soup.fallback, ContainerCap)

\* C10 (amended): the containers examined are the first 30 (all, when
\* there are at most 30) matches of the first container selector with a
\* match, in document order; matches of later selectors are never added;
\* the first 30 elements of the fallback are examined only when no
\* container selector matches.
C10_FirstHitCapped ==
    ExtDone =>
        IF ExtHits # {}
        THEN ex_examined[1] = Take(Select(ex_soup, ExtSelectors[ExtFirst]), ContainerCap)
        ELSE ex_examined[1] = Take(ex_soup.fallback, ContainerCap)

\* the first selector matches nothing, the second and a later one match
\* different elements, the fallback matches too: the second one's are examined
C10_Witness ==
    /\ ExtDone
    /\ Cardinality(ExtHits) >= 2 /\ ExtFirst = 2
    /\ ex_soup.fallback # <<>>
    /\ ex_examined[1] = Select(ex_soup, ExtSelectors[2])
    /\ \A i \in ExtHits \ {2} : Select(ex_soup, ExtSelectors[i]) # ex_examined[1]

\* the text of the first title sub-selector, in list order, whose matched
\* element has non-empty text; None when there is none
RECURSIVE FirstNonEmptyText(_, _)
FirstNonEmptyText(container, title_sels) ==
    IF title_sels = <<>> THEN None
    ELSE IF Truthy(FindIn(container.texts, Head(title_sels)))
            /\ FindIn(container.texts, Head(title_sels)) # NoElem
         THEN FindIn(container.texts, Head(title_sels))
         ELSE FirstNonEmptyText(container, Tail(title_sels))

\* the titles of the containers, in order, that have a non-empty title
\* text under some sub-selector and a link with a non-empty href
RECURSIVE TitlesDue(_, _, _)
TitlesDue(containers, selectors, base_url) ==
    IF containers = <<>> THEN <<>>
    ELSE LET title == FirstNonEmptyText(Head(containers), selectors.title)
             rest == TitlesDue(Tail(containers), selectors, base_url)
         IN IF title # None
               /\ ExtractLink(Head(containers), selectors.link, base_url) # None
            THEN <<title>> \o rest
            ELSE rest

\* C11: title extraction takes the first non-empty match: every container
\* examined in which some title sub-selector yields non-empty text and a
\* link with a non-empty href exists contributes an item whose title is the
\* text of the first such sub-selector; none is dropped because an earlier
\* sub-selector matched an element with empty text.
C11_FirstNonEmptyTitle ==
    ExtDone =>
        [i \in 1..Len(ex_ret[1]) |-> ex_ret[1][i].title]
            = Take(TitlesDue(ex_examined[1], site_selectors[SiteKey(ex_site_name)],
                             ex_base_url), ItemCap)

(***************************************************************************)
(* Properties of filter_new_items (SpecDed)                                *)
(***************************************************************************)
HashesOf(items) == {get_item_hash(items[i]) : i \in 1..Len(items)}

\* C2: filter_new_items never returns an item whose hash is in the
\* seen-store when the item is processed, hashes inserted earlier in the
\* same call included: the first call returns no item whose hash was in the
\* store and no two items with one hash, [L, L] with L not in the store
\* gives exactly one item, and a further call with the same input gives none.
C2_NeverReReported ==
    /\ Len(dd_rets) >= 1 =>
          /\ HashesOf(dd_rets[1]) \cap DOMAIN dd_store0 = {}
          /\ \A i, j \in 1..Len(dd_rets[1]) :
                i # j => get_item_hash(dd_rets[1][i]) # get_item_hash(dd_rets[1][j])
          /\ (/\ Len(dd_input) = 2 /\ dd_input[1] = dd_input[2]
              /\ get_item_hash(dd_input[1]) \notin DOMAIN dd_store0)
                => Len(dd_rets[1]) = 1
    /\ \A k \in 2..Len(dd_rets) : dd_rets[k] = <<>>

\* [L, L] on a store without L: one item the first time, none the second
C2_Witness ==
    /\ Len(dd_rets) = 2
    /\ Len(dd_input) = 2 /\ dd_input[1] = dd_input[2]
    /\ get_item_hash(dd_input[1]) \notin DOMAIN dd_store0
    /\ dd_store0 # EmptyDict
    /\ dd_rets[1] = <<dd_input[1]>>
    /\ dd_rets[2] = <<>>

\* the positions of items that hold the first occurrence of a hash that is
\* not in the set seen
FirstOccurrences(items, seen) ==
    {i \in 1..Len(items) :
        /\ get_item_hash(items[i]) \notin seen
        /\ \A j \in 1..(i - 1) : get_item_hash(items[j]) # get_item_hash(items[i])}

\* the subsequence of items at the positions in keep, from position i on
RECURSIVE PickFrom(_, _, _)
PickFrom(items, keep, i) ==
    IF i > Len(items) THEN <<>>
    ELSE IF i \in keep THEN <<items[i]>> \o PickFrom(items, keep, i + 1)
    ELSE PickFrom(items, keep, i + 1)

\* C12: deduplication is stable: the list a call of filter_new_items
\* returns is the subsequence of its input (same order, items unaltered)
\* made of exactly the first occurrence of each identity hash that was
\* absent from the seen-store when the call began.
C12_StableFirstOccurrences ==
    [][Len(dd_rets') > Len(dd_rets) =>
          dd_rets'[Len(dd_rets')]
              = PickFrom(dd_input, FirstOccurrences(dd_input, DOMAIN emailed_items), 1)]_vars

\* [L, L2, M] with L and L2 two listings of one hash that differ in their
\* source, M of another hash, on a non-empty store without either: the
\* call returns [L, M]
C12_Witness ==
    /\ Len(dd_rets) >= 1
    /\ Len(dd_input) = 3
    /\ dd_input[1] # dd_input[2]
    /\ get_item_hash(dd_input[1]) = get_item_hash(dd_input[2])
    /\ get_item_hash(dd_input[3]) # get_item_hash(dd_input[1])
    /\ dd_store0 # EmptyDict
    /\ HashesOf(dd_input) \cap DOMAIN dd_store0 = {}
    /\ dd_rets[1] = <<dd_input[1], dd_input[3]>>

\* the last item of a non-empty selection of items with the hash h
LastWithHash(items, h) ==
    items[CHOOSE i \in 1..Len(items) :
            /\ get_item_hash(items[i]) = h
            /\ \A j \in (i + 1)..Len(items) : get_item_hash(items[j]) # h]

\* the active store after a call of filter_new_items(items) at time now
\* that began with the store before: every hash of the input, new or
\* duplicate, maps to the fields of the last input item with that hash;
\* the other entries are as they were; none is removed
ActiveOverwritten(items, before, after, now) ==
    /\ DOMAIN after = DOMAIN before \cup HashesOf(items)
    /\ \A h \in HashesOf(items) :
          LET item == LastWithHash(items, h) IN
          after[h] = [title |-> item.title, url |-> item.url, source |-> item.source,
                      search_term |-> item.search_term, region |-> item.region,
                      last_seen |-> now]
    /\ \A h \in DOMAIN before \ HashesOf(items) : after[h] = before[h]

\* C13: the active store is overwritten on every observation independent
\* of novelty: a call of filter_new_items (in run(), line 683, or on its
\* own) leaves active_items as ActiveOverwritten says; run() then writes it
\* to disk (line 686) before the branch on new_items, so a run that gets
\* past the search, the filter and the save ends, whatever happens to the
\* email, with the file equal to the store in memory; the file never loses
\* an entry.
C13_ActiveOverwrittenAndSaved ==
    [][/\ (pc = "filter" /\ pc' = "save_active")
            => ActiveOverwritten(all_results, active_items, active_items', weekday)
       /\ Len(dd_rets') > Len(dd_rets)
            => ActiveOverwritten(dd_input, active_items, active_items', weekday)
       /\ (pc = "save_active" /\ pc' = "report") => disk_active' = active_items
       /\ (pc \in {"report", "send"} /\ pc' = "idle")
            => /\ disk_active' = active_items
               /\ HashesOf(all_results) \subseteq DOMAIN disk_active'
       /\ \A h \in DOMAIN disk_active : h \in DOMAIN disk_active']_vars

\* a run that found only a listing reported before, on a day other than
\* Sunday: nothing new, no email, and the listing's entry in the file
\* carries the time of this run
C13_Witness ==
    /\ pc = "idle"
    /\ last_run.how = "completed" /\ last_run.sent = FALSE
    /\ last_run.found # <<>> /\ last_run.new = <<>>
    /\ \A h \in HashesOf(last_run.found) :
          h \in DOMAIN disk_active /\ disk_active[h].last_seen # 0

\* the three identity fields of an item
IdentityFields(item) == <<item.title, item.url, item.search_term>>

\* C15: the identity key is injective in the identity fields: two listings
\* given to filter_new_items get the same hash from get_item_hash if and
\* only if they agree on title, url and search_term, so that two different
\* listings are never merged, whatever the fields contain ('_' included).
C15_HashInjective ==
    Len(dd_rets) >= 1 =>
        \A i, j \in 1..Len(dd_input) :
            (get_item_hash(dd_input[i]) = get_item_hash(dd_input[j]))
                <=> (IdentityFields(dd_input[i]) = IdentityFields(dd_input[j]))

(***************************************************************************)
(* Properties of create_email_html (SpecMail)                              *)
(***************************************************************************)
\* C4: create_email_html returns None for an empty list on a day other
\* than Sunday, and returns a non-empty document for a non-empty list on
\* every day of the week.
C4_ReporterDocument ==
    ce_ret # <<>> =>
        /\ (ce_items = <<>> /\ ce_weekday # Sunday)
              => (ce_ret[1].raised = None /\ ce_ret[1].value = <<>>)
        /\ ce_items # <<>>
              => (ce_ret[1].raised = None /\ ce_ret[1].value # <<>>)

(***************************************************************************)
(* Properties of check_all_sites and search_site (SpecSearch)              *)
(***************************************************************************)
NumSites == Len(config.sites)
NumPairs == (Len(config.artists) + Len(config.furniture)) * NumSites
\* the k-th pair of the configuration: all artists, then all furniture
\* entries, each against every site in order
TermNo(n) ==
    IF n <= Len(config.artists)
    THEN ArtistTerm(config.artists[n])
    ELSE config.furniture[n - Len(config.artists)]
ExpectedPair(k) ==
    [term |-> TermNo(((k - 1) \div NumSites) + 1),
     site |-> config.sites[((k - 1) % NumSites) + 1]]
\* what the pairs 1..k that did not fail contribute, in order
RECURSIVE Collected(_)
Collected(k) ==
    IF k = 0 THEN <<>>
    ELSE Collected(k - 1)
         \o (IF calls[k].outcome = "ok"
             THEN search_site(ExpectedPair(k).site, ExpectedPair(k).term, "ok",
                              web[ExpectedPair(k).site.name])
             ELSE <<>>)

\* C9: whatever fetches fail, no exception leaves search_site, a failed
\* pair contributes no result, search_site is called exactly once for every
\* (term, site) pair in configuration order, and the results of the pairs
\* that did not fail are all collected.
C9_FailureIsolation ==
    /\ last_run = NoRun
    /\ pc \in {"check", "filter"}
    /\ Len(calls) = idx - 1
    /\ (pc = "filter") <=> (Len(calls) = NumPairs)
    /\ Len(calls) <= NumPairs
    /\ \A k \in 1..Len(calls) :
          /\ calls[k].term = ExpectedPair(k).term
          /\ calls[k].site = ExpectedPair(k).site.name
    /\ all_results = Collected(Len(calls))

\* check_all_sites has returned; fetches of every failing kind happened
\* before a fetch that succeeded, and results were collected
C9_Witness ==
    /\ pc = "filter"
    /\ \E j \in 1..Len(calls) :
          /\ calls[j].outcome = "ok"
          /\ \E i \in 1..(j - 1) : calls[i].outcome \in {"timeout", "connection_error", "500"}
          /\ \E i \in 1..(j - 1) : calls[i].outcome \in {"403", "404"}
    /\ all_results # <<>>

(***************************************************************************)
(* Properties of run() (Spec)                                              *)
(***************************************************************************)
\* the process r found one matching listing, had loaded an empty seen-store
\* and was not stopped from outside; email delivery works
OneListingFound(r) ==
    /\ r.loaded = {}
    /\ Len(r.found) = 1
    /\ r.how # "interrupted"
    /\ delivery = "ok"

\* C1: two runs on identical site content with one matching listing, an
\* empty persisted seen-store before run 1 and working email delivery:
\* run 1 reports exactly 1 new item and its hash is in the persisted
\* seen-store when run 1 ends; run 2 reports 0 new items.
C1_TwoRuns ==
    (last_run.no = 1 /\ OneListingFound(last_run)) =>
        /\ Len(last_run.new) = 1
        /\ get_item_hash(last_run.found[1]) \in last_run.stored
        /\ (/\ run_no = 2 /\ pc \in {"save_active", "report", "send"}
            /\ all_results = last_run.found)
              => new_items = <<>>

\* send_email has just returned True in the process that is running
SendSucceeds ==
    pc = "send" /\ send_email(html, delivery # "no_credentials", delivery = "ok")

\* C14: across any sequence of runs, interrupted and aborted ones included,
\* emailed_items.json is written only after send_email has returned
\* success in the same run, and then every hash it gains belongs to an item
\* of that email; a run that ends without a successful send (nothing new on
\* a day other than Sunday, a failed send, an exception, an interruption)
\* leaves the file exactly as it was loaded.
C14_StoreWrittenOnlyAfterSend ==
    [][/\ disk_emailed' # disk_emailed
            => /\ SendSucceeds
               /\ DOMAIN disk_emailed' \ DOMAIN disk_emailed \subseteq HashesOf(new_items)
       /\ (pc # "idle" /\ pc' = "idle" /\ ~SendSucceeds)
            => /\ disk_emailed' = disk_emailed
               /\ DOMAIN disk_emailed' = loaded
               /\ last_run'.stored = last_run'.loaded]_vars

\* a run that found a new listing and was aborted by the exception of
\* create_email_html, after an earlier run: the file is as it was loaded
C14_Witness ==
    /\ pc = "idle"
    /\ last_run.no = 2
    /\ last_run.how = "NameError"
    /\ last_run.new # <<>>
    /\ last_run.stored = last_run.loaded
    /\ DOMAIN disk_emailed = last_run.loaded
    /\ HashesOf(last_run.new) \cap DOMAIN disk_emailed = {}

\* send_email is reached only from a run that started on a Sunday with
\* nothing new and rendered its report after midnight: whenever run() has
\* something to report, create_email_html raises before send_email is called
SendReachedOnlyWithNothingToSend ==
    pc = "send" => (new_items = <<>> /\ html = <<>> /\ is_sunday /\ weekday # Sunday)

====
